---- MODULE Spec2Model ----
(***************************************************************************)
(* Model of the ride-hailing backend (FastAPI handlers over a SQLAlchemy   *)
(* session).  The persisted tables are the variables users, drivers, trips *)
(* and reviews; session is the request's SQLAlchemy session (get_db), with *)
(* the attribute writes that have not been committed; request / response   *)
(* are the HTTP request being served and the handler's answer.  The tables *)
(* promo_codes and messages are further persisted tables; workers holds    *)
(* the requests that the thread pool serves concurrently, each with its    *)
(* own session.                                                            *)
(*                                                                         *)
(* Money is counted in whole currency units and ratings in tenths          *)
(* (rating 4.5 is 45), so that the Float columns are exact integers here.  *)
(***************************************************************************)
EXTENDS Integers, Sequences, FiniteSets, TLC

VARIABLES users, drivers, trips, reviews, promo_codes, messages,
          session, request, response, workers

vars == <<users, drivers, trips, reviews, promo_codes, messages,
          session, request, response, workers>>

tables == <<users, drivers, trips, reviews, promo_codes, messages>>

(* ------------------------------ bounds -------------------------------- *)

\* most rows the trips table may hold (request_trip stops at this bound)
MaxTrips == 2

\* largest review id the reviews table may issue (leave_review stops there)
MaxReviews == 3

\* final_price values a client may send: negative, zero and positive
Prices == {-5, 0, 25}

\* rating values a client may send with a review
Ratings == {4, 5}

\* requests the thread pool serves at the same time
MaxWorkers == 2

(* --------------------------- program constants ------------------------ *)

\* Column(Integer, ForeignKey("drivers.id"), nullable=True): Python None
None == 0

\* amount_to_pay = ... else 10.0
FlatFee == 10

\* Driver.rating default 5.0, in tenths
DefaultRating == 50

\* Driver.total_earnings default 0.0
DefaultEarnings == 0

(* ------------------------------ rows ---------------------------------- *)

\* models.User(...): the columns the handlers below read
User(role) == [role |-> role]

\* models.Driver(user_id=...) with the column defaults
Driver(user_id) ==
    [user_id |-> user_id, rating |-> DefaultRating, is_online |-> FALSE,
     total_earnings |-> DefaultEarnings]

\* mutant of Trip: a requested trip is stored as started
Trip_started(client_id, final_price) ==
    [client_id |-> client_id, driver_id |-> None, status |-> "started",
     payment_status |-> "pending", final_price |-> final_price]

\* models.Trip(client_id=..., final_price=..., status="searching")
Trip(client_id, final_price) ==
    [client_id |-> client_id, driver_id |-> None, status |-> "searching",
     payment_status |-> "pending", final_price |-> final_price]

\* Trip.driver = relationship("Driver"): the row driver_id points at, or None
trip_driver(trip) ==
    IF trip.driver_id \in DOMAIN drivers THEN trip.driver_id ELSE None

\* Trip.client = relationship("User"): the row client_id points at, or None
trip_client(trip) ==
    IF trip.client_id \in DOMAIN users THEN trip.client_id ELSE None

(* ----------------------------- session -------------------------------- *)

\* no request is being served
Closed == [open |-> FALSE, dirty |-> {}]

\* the session of the request being served, holding uncommitted writes
Open(dirty) == [open |-> TRUE, dirty |-> dirty]

\* an attribute assignment on a loaded row that no commit has flushed yet
Write(table, id, field, value) ==
    [table |-> table, id |-> id, field |-> field, value |-> value]

NoRequest == [op |-> "none"]

NoResponse == [code |-> 0]

\* get_db: SessionLocal() precedes the handler
Begin(req) ==
    /\ ~session.open
    /\ request' = req
    /\ UNCHANGED workers

\* raise HTTPException(status_code=...): nothing is committed, the writes
\* made so far stay pending in the session until get_db closes it
HTTPException(status_code, dirty) ==
    /\ response' = [code |-> status_code]
    /\ session' = Open(dirty)
    /\ UNCHANGED tables

\* return {...} after db.commit(): the session holds no pending write
Return(body) ==
    /\ response' = [code |-> 200] @@ body
    /\ session' = Open({})

\* mutant of close_session: get_db without try/finally, closing the
\* session only after a handler that returned
close_session_on_return ==
    /\ session.open
    /\ response.code = 200
    /\ session' = Closed
    /\ request' = NoRequest
    /\ response' = NoResponse
    /\ UNCHANGED <<tables, workers>>

\* mutant of close_session: get_db commits the pending writes before it
\* closes the session
close_session_commit ==
    /\ session.open
    /\ session' = Closed
    /\ request' = NoRequest
    /\ response' = NoResponse
    /\ trips' = [i \in DOMAIN trips |-> [f \in DOMAIN trips[i] |->
          IF \E w \in session.dirty :
                w.table = "trips" /\ w.id = i /\ w.field = f
          THEN (CHOOSE w \in session.dirty :
                  w.table = "trips" /\ w.id = i /\ w.field = f).value
          ELSE trips[i][f]]]
    /\ UNCHANGED <<users, drivers, reviews, promo_codes, messages, workers>>

\* get_db: finally database.close(); pending writes are discarded
close_session ==
    /\ session.open
    /\ session' = Closed
    /\ request' = NoRequest
    /\ response' = NoResponse
    /\ UNCHANGED <<tables, workers>>

(* ------------------------------ trips --------------------------------- *)

request_trip(client_id, final_price) ==
    /\ Begin([op |-> "request_trip", client_id |-> client_id,
              final_price |-> final_price])
    /\ Len(trips) < MaxTrips
    /\ trips' = Append(trips, Trip(client_id, final_price))
    /\ Return([trip_id |-> Len(trips) + 1])
    /\ UNCHANGED <<users, drivers, reviews, promo_codes, messages>>

\* mutant of accept_refused: no trip is refused
accept_refused_never(trip) == FALSE

\* mutant of accept_refused: only a cancelled trip is refused
accept_refused_cancelled(trip) == trip.status = "cancelled"

\* if trip.status != "searching": raise
accept_refused(trip) == trip.status # "searching"

accept_trip(trip_id, driver_id) ==
    /\ Begin([op |-> "accept_trip", trip_id |-> trip_id, driver_id |-> driver_id])
    /\ IF driver_id \notin DOMAIN drivers
       THEN HTTPException(404, {})
       ELSE IF trip_id \notin DOMAIN trips
       THEN HTTPException(404, {})
       ELSE IF accept_refused(trips[trip_id])
       THEN HTTPException(400, {})
       ELSE /\ trips' = [trips EXCEPT ![trip_id].driver_id = driver_id,
                                      ![trip_id].status = "accepted"]
            /\ Return(<<>>)
            /\ UNCHANGED <<users, drivers, reviews, promo_codes, messages>>

\* mutant of cancel_refused: no trip is refused
cancel_refused_never(trip) == FALSE

\* mutant of cancel_refused: only a completed trip is refused
cancel_refused_completed(trip) == trip.status = "completed"

\* if trip.status in ["completed", "cancelled"]: raise
cancel_refused(trip) == trip.status \in {"completed", "cancelled"}

cancel_trip(trip_id) ==
    /\ Begin([op |-> "cancel_trip", trip_id |-> trip_id])
    /\ IF trip_id \notin DOMAIN trips
       THEN HTTPException(404, {})
       ELSE IF cancel_refused(trips[trip_id])
       THEN HTTPException(400, {})
       ELSE /\ trips' = [trips EXCEPT ![trip_id].status = "cancelled"]
            /\ Return(<<>>)
            /\ UNCHANGED <<users, drivers, reviews, promo_codes, messages>>

\* mutant of complete_refused: a cancelled trip is refused, a completed
\* one is not
complete_refused_cancelled(trip) == trip.status = "cancelled"

\* mutant of complete_refused: the check is left out
complete_refused_skipped(trip) == FALSE

\* if trip.status == "completed": raise
complete_refused(trip) == trip.status = "completed"

\* mutant of amount_to_pay: no flat fallback
amount_to_pay_price(trip) == trip.final_price

\* mutant of amount_to_pay: the fallback only for a price of exactly 0
amount_to_pay_nonzero(trip) ==
    IF trip.final_price # 0 THEN trip.final_price ELSE FlatFee

\* amount_to_pay = trip.final_price if trip.final_price > 0 else 10.0
amount_to_pay(trip) ==
    IF trip.final_price > 0 THEN trip.final_price ELSE FlatFee

\* trip.status = "completed"; trip.payment_status = "paid"
complete_writes(trip_id) ==
    {Write("trips", trip_id, "status", "completed"),
     Write("trips", trip_id, "payment_status", "paid")}

complete_and_process_payment(trip_id) ==
    /\ Begin([op |-> "complete_and_process_payment", trip_id |-> trip_id])
    /\ IF trip_id \notin DOMAIN trips
       THEN HTTPException(404, {})
       ELSE IF complete_refused(trips[trip_id])
       THEN HTTPException(400, {})
       ELSE IF trip_driver(trips[trip_id]) = None
       THEN HTTPException(400, complete_writes(trip_id))
       ELSE /\ trips' = [trips EXCEPT ![trip_id].status = "completed",
                                      ![trip_id].payment_status = "paid"]
            /\ drivers' = [drivers EXCEPT
                  ![trips[trip_id].driver_id].total_earnings =
                      @ + amount_to_pay(trips[trip_id])]
            /\ Return(<<>>)
            /\ UNCHANGED <<users, reviews, promo_codes, messages>>

(* ------------------------------ reviews ------------------------------- *)

\* models.Review(trip_id=..., driver_id=..., rating=...)
Review(id, trip_id, driver_id, rating) ==
    [id |-> id, trip_id |-> trip_id, driver_id |-> driver_id, rating |-> rating]

\* the id the reviews table gives its next row: one past the largest stored
next_review_id(rows) ==
    IF rows = {} THEN 1
    ELSE (CHOOSE i \in {r.id : r \in rows} : \A r \in rows : r.id <= i) + 1

\* filter(models.Review.driver_id == driver_id)
reviews_of(rows, driver_id) == {r \in rows : r.driver_id = driver_id}

RECURSIVE rating_sum(_)
rating_sum(rows) ==
    IF rows = {} THEN 0
    ELSE LET r == CHOOSE x \in rows : TRUE
         IN r.rating + rating_sum(rows \ {r})

\* db.query(func.avg(models.Review.rating)).filter(...).scalar():
\* the mean as the fraction sum / count, or NULL over no row
avg_rating(rows, driver_id) ==
    LET mine == reviews_of(rows, driver_id)
    IN [is_null |-> mine = {}, sum |-> rating_sum(mine), count |-> Cardinality(mine)]

\* mutant of round1: the mean is truncated to one decimal
round1_floor(sum, count) == (10 * sum) \div count

\* round(float(avg), 1), in tenths: the nearest tenth of sum / count, an
\* exact tie going to the even tenth (round(4.25, 1) == 4.2)
round1(sum, count) ==
    LET q == (10 * sum) \div count
        r == (10 * sum) % count
    IN IF 2 * r < count THEN q
       ELSE IF 2 * r > count THEN q + 1
       ELSE IF q % 2 = 0 THEN q ELSE q + 1

\* trip.client.full_name on a trip whose client row does not exist:
\* AttributeError on None, answered by the framework as a 500
AttributeError == HTTPException(500, {})

\* mutant of review_refused: only a trip still searching is refused
review_refused_searching(trip) == trip.status = "searching"

\* if trip.status != "completed": raise
review_refused(trip) == trip.status # "completed"

leave_review(trip_id, rating) ==
    /\ Begin([op |-> "leave_review", trip_id |-> trip_id, rating |-> rating])
    /\ IF trip_id \notin DOMAIN trips
       THEN HTTPException(404, {})
       ELSE IF review_refused(trips[trip_id])
       THEN HTTPException(400, {})
       ELSE IF trip_client(trips[trip_id]) = None
       THEN AttributeError
       ELSE LET driver_id == trips[trip_id].driver_id
                new_review == Review(next_review_id(reviews), trip_id, driver_id, rating)
                stored == reviews \cup {new_review}
                avg_rating_result == avg_rating(stored, driver_id)
            IN /\ new_review.id <= MaxReviews
               /\ reviews' = stored
               /\ drivers' =
                    IF driver_id \in DOMAIN drivers /\ ~avg_rating_result.is_null
                    THEN [drivers EXCEPT ![driver_id].rating =
                            round1(avg_rating_result.sum, avg_rating_result.count)]
                    ELSE drivers
               /\ Return([review_id |-> new_review.id])
               /\ UNCHANGED <<users, trips, promo_codes, messages>>

delete_review(review_id) ==
    /\ Begin([op |-> "delete_review", review_id |-> review_id])
    /\ IF review_id \notin {r.id : r \in reviews}
       THEN HTTPException(404, {})
       ELSE /\ reviews' = {r \in reviews : r.id # review_id}
            /\ Return(<<>>)
            /\ UNCHANGED <<users, drivers, trips, promo_codes, messages>>

(* --------------------------- specification ---------------------------- *)

\* a client, and two drivers whose profiles are set up
Init ==
    /\ users = <<User("client"), User("driver"), User("driver")>>
    /\ drivers = <<Driver(2), Driver(3)>>
    /\ trips = <<>>
    /\ reviews = {}
    /\ promo_codes = {}
    /\ messages = <<>>
    /\ session = Closed
    /\ request = NoRequest
    /\ response = NoResponse
    /\ workers = <<>>

TripIds == 1 .. (MaxTrips + 1)

DriverIds == 1 .. (Len(drivers) + 1)

\* client ids a request may name: the client, and an id no user has
ClientIds == {1, Len(users) + 1}

ReviewIds == 1 .. (MaxReviews + 1)

Next ==
    \/ \E c \in ClientIds, p \in Prices : request_trip(c, p)
    \/ \E t \in TripIds, d \in DriverIds : accept_trip(t, d)
    \/ \E t \in TripIds : cancel_trip(t)
    \/ \E t \in TripIds : complete_and_process_payment(t)
    \/ close_session

Spec == Init /\ [][Next]_vars

\* the trip table after three requests, accepted by driver 1, driver 2 and
\* driver 1; the third trip names a client id that no user has
ReviewInit ==
    /\ users = <<User("client"), User("driver"), User("driver")>>
    /\ drivers = <<Driver(2), Driver(3)>>
    /\ trips = <<[Trip(1, 25) EXCEPT !.driver_id = 1, !.status = "accepted"],
                 [Trip(1, 0) EXCEPT !.driver_id = 2, !.status = "accepted"],
                 [Trip(4, 25) EXCEPT !.driver_id = 1, !.status = "accepted"]>>
    /\ reviews = {}
    /\ promo_codes = {}
    /\ messages = <<>>
    /\ session = Closed
    /\ request = NoRequest
    /\ response = NoResponse
    /\ workers = <<>>

ReviewNext ==
    \/ \E t \in 1 .. (Len(trips) + 1) : cancel_trip(t)
    \/ \E t \in 1 .. (Len(trips) + 1) : complete_and_process_payment(t)
    \/ \E t \in 1 .. (Len(trips) + 1), r \in Ratings : leave_review(t, r)
    \/ \E i \in ReviewIds : delete_review(i)
    \/ close_session

SpecReview == ReviewInit /\ [][ReviewNext]_vars

(* ------------------------- concurrent accept ------------------------- *)

\* a pool thread that serves no request
Idle == [pc |-> "idle", trip_id |-> None, driver_id |-> None,
         status |-> "", code |-> 0]

\* the tables a step of accept_trip before its commit leaves alone
accept_frame ==
    UNCHANGED <<users, drivers, trips, reviews, promo_codes, messages,
                session, request, response>>

\* a pool thread takes PATCH /trip/{trip_id}/accept with a session of its own
accept_begin(w, trip_id, driver_id) ==
    /\ workers[w].pc = "idle"
    /\ workers' = [workers EXCEPT ![w] =
          [Idle EXCEPT !.pc = "query_driver", !.trip_id = trip_id,
                       !.driver_id = driver_id]]
    /\ accept_frame

\* driver = db.query(models.Driver)...first(); if not driver: raise 404
accept_query_driver(w) ==
    /\ workers[w].pc = "query_driver"
    /\ workers' = [workers EXCEPT ![w] =
          IF workers[w].driver_id \notin DOMAIN drivers
          THEN [@ EXCEPT !.pc = "done", !.code = 404]
          ELSE [@ EXCEPT !.pc = "query_trip"]]
    /\ accept_frame

\* trip = db.query(models.Trip)...first(); if not trip: raise 404;
\* the session keeps the row as it read it
accept_query_trip(w) ==
    /\ workers[w].pc = "query_trip"
    /\ workers' = [workers EXCEPT ![w] =
          IF workers[w].trip_id \notin DOMAIN trips
          THEN [@ EXCEPT !.pc = "done", !.code = 404]
          ELSE [@ EXCEPT !.pc = "check_status",
                         !.status = trips[workers[w].trip_id].status]]
    /\ accept_frame

\* if trip.status != "searching": raise 400, on the row as it was read
accept_check_status(w) ==
    /\ workers[w].pc = "check_status"
    /\ workers' = [workers EXCEPT ![w] =
          IF accept_refused([status |-> workers[w].status])
          THEN [@ EXCEPT !.pc = "done", !.code = 400]
          ELSE [@ EXCEPT !.pc = "commit"]]
    /\ accept_frame

\* mutant of accept_commit: the UPDATE is made only while the stored trip
\* is still searching, and the request fails with 400 otherwise
accept_commit_checked(w) ==
    /\ workers[w].pc = "commit"
    /\ IF trips[workers[w].trip_id].status = "searching"
       THEN /\ trips' = [trips EXCEPT
                  ![workers[w].trip_id].driver_id = workers[w].driver_id,
                  ![workers[w].trip_id].status = "accepted"]
            /\ workers' = [workers EXCEPT ![w].pc = "done", ![w].code = 200]
       ELSE /\ trips' = trips
            /\ workers' = [workers EXCEPT ![w].pc = "done", ![w].code = 400]
    /\ UNCHANGED <<users, drivers, reviews, promo_codes, messages,
                   session, request, response>>

\* trip.driver_id = driver_id; trip.status = "accepted"; db.commit():
\* UPDATE trips SET driver_id, status WHERE id = trip_id
accept_commit(w) ==
    /\ workers[w].pc = "commit"
    /\ trips' = [trips EXCEPT
          ![workers[w].trip_id].driver_id = workers[w].driver_id,
          ![workers[w].trip_id].status = "accepted"]
    /\ workers' = [workers EXCEPT ![w].pc = "done", ![w].code = 200]
    /\ UNCHANGED <<users, drivers, reviews, promo_codes, messages,
                   session, request, response>>

\* the response is sent and get_db closes the thread's session
accept_end(w) ==
    /\ workers[w].pc = "done"
    /\ workers' = [workers EXCEPT ![w] = Idle]
    /\ accept_frame

\* two drivers and one trip that is searching for a driver
RaceInit ==
    /\ users = <<User("client"), User("driver"), User("driver")>>
    /\ drivers = <<Driver(2), Driver(3)>>
    /\ trips = <<Trip(1, 25)>>
    /\ reviews = {}
    /\ promo_codes = {}
    /\ messages = <<>>
    /\ session = Closed
    /\ request = NoRequest
    /\ response = NoResponse
    /\ workers = [w \in 1 .. MaxWorkers |-> Idle]

RaceNext ==
    \/ \E w \in DOMAIN workers, t \in 1 .. (Len(trips) + 1), d \in DriverIds :
          accept_begin(w, t, d)
    \/ \E w \in DOMAIN workers : accept_query_driver(w)
    \/ \E w \in DOMAIN workers : accept_query_trip(w)
    \/ \E w \in DOMAIN workers : accept_check_status(w)
    \/ \E w \in DOMAIN workers : accept_commit(w)
    \/ \E w \in DOMAIN workers : accept_end(w)

SpecRace == RaceInit /\ [][RaceNext]_vars

(* ------------------------------ accounts ------------------------------ *)

\* emails, phones and passwords a client may send
Emails == {"a@x.bg", "b@x.bg"}

Phones == {"0881", "0882", "0883"}

Passwords == {"pw1", "pw2"}

\* models.User(full_name, email, phone, password, role) with the column
\* defaults; favorites is the comma-joined string as a sequence of
\* characters, NULL and "" both being the empty sequence
NewUser(email, phone, password, role) ==
    [role |-> role, email |-> email, phone |-> phone, password |-> password,
     favorites |-> <<>>, is_verified |-> FALSE, is_active |-> TRUE]

\* mutant of unique_violation: the users table has no unique index on phone
unique_violation_email(rows, id, email, phone) ==
    \E j \in DOMAIN rows \ {id} : rows[j].email = email

\* Column(String, unique=True) on email and on phone: the row id would
\* share its email or its phone with another row
unique_violation(rows, id, email, phone) ==
    \E j \in DOMAIN rows \ {id} :
        rows[j].email = email \/ rows[j].phone = phone

\* db.commit() rejected by a unique index: sqlalchemy.exc.IntegrityError,
\* answered by the framework as a 500; nothing is stored
IntegrityError(dirty) == HTTPException(500, dirty)

\* mutant of existing_user: only the email is looked up
existing_user_email(email, phone) ==
    \E i \in DOMAIN users : users[i].email = email

\* filter((User.email == user_in.email) | (User.phone == user_in.phone)).first()
existing_user(email, phone) ==
    \E i \in DOMAIN users : users[i].email = email \/ users[i].phone = phone

register_user(email, phone, password, role) ==
    /\ Begin([op |-> "register_user", email |-> email, phone |-> phone,
              password |-> password, role |-> role])
    /\ IF existing_user(email, phone)
       THEN HTTPException(400, {})
       ELSE IF unique_violation(users, Len(users) + 1, email, phone)
       THEN IntegrityError({})
       ELSE /\ users' = Append(users, NewUser(email, phone, password, role))
            /\ Return([id |-> Len(users) + 1])
            /\ UNCHANGED <<drivers, trips, reviews, promo_codes, messages>>

\* filter(models.User.email == email).first(): the row's id, or None
user_by_email(email) ==
    IF \E i \in DOMAIN users : users[i].email = email
    THEN CHOOSE i \in DOMAIN users :
            /\ users[i].email = email
            /\ \A j \in DOMAIN users : users[j].email = email => i <= j
    ELSE None

\* mutant of login: the blocked check comes before the credential check
login_blocked_first(email, password) ==
    /\ Begin([op |-> "login", email |-> email, password |-> password])
    /\ LET user == user_by_email(email)
       IN IF user # None /\ users[user].is_active = FALSE
          THEN HTTPException(403, {})
          ELSE IF user = None \/ users[user].password # password
          THEN HTTPException(401, {})
          ELSE /\ Return([id |-> user])
               /\ UNCHANGED tables

login(email, password) ==
    /\ Begin([op |-> "login", email |-> email, password |-> password])
    /\ LET user == user_by_email(email)
       IN IF user = None \/ users[user].password # password
          THEN HTTPException(401, {})
          ELSE IF users[user].is_active = FALSE
          THEN HTTPException(403, {})
          ELSE /\ Return([id |-> user])
               /\ UNCHANGED tables

\* user.password = new_password; user.phone = phone, each only when given
\* (None and "" are both not given)
security_writes(user_id, new_password, phone) ==
    (IF new_password # ""
     THEN {Write("users", user_id, "password", new_password)} ELSE {})
    \cup
    (IF phone # "" THEN {Write("users", user_id, "phone", phone)} ELSE {})

update_user_security(user_id, password, new_password, phone) ==
    /\ Begin([op |-> "update_user_security", user_id |-> user_id,
              password |-> password, new_password |-> new_password,
              phone |-> phone])
    /\ IF user_id \notin DOMAIN users \/ users[user_id].password # password
       THEN HTTPException(401, {})
       ELSE LET updated == [users[user_id] EXCEPT
                    !.password = IF new_password # "" THEN new_password ELSE @,
                    !.phone = IF phone # "" THEN phone ELSE @]
            IN IF unique_violation(users, user_id, updated.email, updated.phone)
               THEN IntegrityError(security_writes(user_id, new_password, phone))
               ELSE /\ users' = [users EXCEPT ![user_id] = updated]
                    /\ Return(<<>>)
                    /\ UNCHANGED <<drivers, trips, reviews, promo_codes, messages>>

\* mutant of block_user: the flag is flipped, so a second call unblocks
block_user_toggle(user_id) ==
    /\ Begin([op |-> "block_user", user_id |-> user_id])
    /\ IF user_id \notin DOMAIN users
       THEN HTTPException(404, {})
       ELSE /\ users' = [users EXCEPT ![user_id].is_active = ~@]
            /\ Return(<<>>)
            /\ UNCHANGED <<drivers, trips, reviews, promo_codes, messages>>

\* user.is_active = False
block_user(user_id) ==
    /\ Begin([op |-> "block_user", user_id |-> user_id])
    /\ IF user_id \notin DOMAIN users
       THEN HTTPException(404, {})
       ELSE /\ users' = [users EXCEPT ![user_id].is_active = FALSE]
            /\ Return(<<>>)
            /\ UNCHANGED <<drivers, trips, reviews, promo_codes, messages>>

\* the empty database that create_all leaves at start-up
EmptyInit ==
    /\ users = <<>>
    /\ drivers = <<>>
    /\ trips = <<>>
    /\ reviews = {}
    /\ promo_codes = {}
    /\ messages = <<>>
    /\ session = Closed
    /\ request = NoRequest
    /\ response = NoResponse
    /\ workers = <<>>

\* user ids a request may name: every user, and an id no user has
UserIds == 1 .. (Len(users) + 1)

UsersNext ==
    \/ \E e \in Emails, ph \in Phones, pw \in Passwords :
          register_user(e, ph, pw, "client")
    \/ \E e \in Emails, pw \in Passwords : login(e, pw)
    \/ \E u \in UserIds, pw \in Passwords, npw \in {""} \cup Passwords,
          ph \in {""} \cup Phones : update_user_security(u, pw, npw, ph)
    \/ \E u \in UserIds : block_user(u)
    \/ close_session

SpecUsers == EmptyInit /\ [][UsersNext]_vars

(* ------------------------------ favorites ----------------------------- *)

\* driver ids a client may send; the decimal forms of 1 and 2 are parts of
\* the decimal form of 12
FavoriteIds == {1, 2, 12}

Digits == <<"0", "1", "2", "3", "4", "5", "6", "7", "8", "9">>

RECURSIVE digits(_)
\* the decimal digits of a natural number
digits(n) ==
    IF n < 10 THEN <<Digits[n + 1]>>
    ELSE Append(digits(n \div 10), Digits[(n % 10) + 1])

\* str(driver_id): a string is the sequence of its characters
str(n) == IF n < 0 THEN <<"-">> \o digits(-n) ELSE digits(n)

RECURSIVE split(_, _)
\* s.split(sep) for a one-character separator
split(s, sep) ==
    IF \E i \in DOMAIN s : s[i] = sep
    THEN LET i == CHOOSE k \in DOMAIN s :
                    s[k] = sep /\ \A j \in 1 .. (k - 1) : s[j] # sep
         IN <<SubSeq(s, 1, i - 1)>> \o split(SubSeq(s, i + 1, Len(s)), sep)
    ELSE <<s>>

RECURSIVE join(_, _)
\* sep.join(list)
join(sep, list) ==
    IF list = <<>> THEN <<>>
    ELSE IF Len(list) = 1 THEN list[1]
    ELSE list[1] \o <<sep>> \o join(sep, Tail(list))

RECURSIVE strip(_, _)
\* s.strip(ch): the string without its leading and trailing ch
strip(s, ch) ==
    IF s # <<>> /\ s[1] = ch THEN strip(Tail(s), ch)
    ELSE IF s # <<>> /\ s[Len(s)] = ch THEN strip(SubSeq(s, 1, Len(s) - 1), ch)
    ELSE s

\* the characters that strip() without an argument removes, as far as
\* clients send them here
Whitespace == {" ", "\t", "\n"}

RECURSIVE strip_whitespace(_)
\* s.strip()
strip_whitespace(s) ==
    IF s # <<>> /\ s[1] \in Whitespace THEN strip_whitespace(Tail(s))
    ELSE IF s # <<>> /\ s[Len(s)] \in Whitespace
    THEN strip_whitespace(SubSeq(s, 1, Len(s) - 1))
    ELSE s

RECURSIVE int(_)
\* int(s) of a decimal string; anything else is a ValueError, written None
int(s) ==
    IF s = <<>> \/ \E i \in DOMAIN s : \A d \in DOMAIN Digits : Digits[d] # s[i]
    THEN None
    ELSE LET last == (CHOOSE d \in DOMAIN Digits : Digits[d] = s[Len(s)]) - 1
         IN IF Len(s) = 1 THEN last
            ELSE 10 * int(SubSeq(s, 1, Len(s) - 1)) + last

\* get_favorite_drivers: [int(fid.strip()) for fid in
\* user.favorites.split(",") if fid.strip()]
favorite_ids(favorites) ==
    LET fids == IF favorites # <<>> THEN split(favorites, ",") ELSE <<>>
        kept == SelectSeq(fids, LAMBDA fid : strip_whitespace(fid) # <<>>)
    IN [i \in DOMAIN kept |-> int(strip_whitespace(kept[i]))]

\* mutant of in_favorites: the text is searched for inside each entry, as
\* "in" does on a string
in_favorites_substring(text, current_favorites) ==
    \E i \in DOMAIN current_favorites :
        \E a \in 1 .. (Len(current_favorites[i]) - Len(text) + 1) :
            SubSeq(current_favorites[i], a, a + Len(text) - 1) = text

\* str(driver_id) in current_favorites: equality with a list element
in_favorites(text, current_favorites) ==
    \E i \in DOMAIN current_favorites : current_favorites[i] = text

add_favorite_driver(user_id, driver_id) ==
    /\ Begin([op |-> "add_favorite_driver", user_id |-> user_id,
              driver_id |-> driver_id])
    /\ IF user_id \notin DOMAIN users
       THEN HTTPException(404, {})
       ELSE LET favorites == users[user_id].favorites
                current_favorites ==
                    IF favorites # <<>> THEN split(favorites, ",") ELSE <<>>
            IN IF ~in_favorites(str(driver_id), current_favorites)
               THEN /\ users' = [users EXCEPT ![user_id].favorites =
                            strip(join(",", Append(current_favorites,
                                                   str(driver_id))), ",")]
                    /\ Return([message |-> "Driver added to favorites"])
                    /\ UNCHANGED <<drivers, trips, reviews, promo_codes,
                                   messages>>
               ELSE /\ Return([message |->
                            "Driver is already in your favorites list"])
                    /\ UNCHANGED tables

\* the database after two registrations
FavoritesInit ==
    /\ users = <<NewUser("a@x.bg", "0881", "pw1", "client"),
                 NewUser("b@x.bg", "0882", "pw2", "client")>>
    /\ drivers = <<>>
    /\ trips = <<>>
    /\ reviews = {}
    /\ promo_codes = {}
    /\ messages = <<>>
    /\ session = Closed
    /\ request = NoRequest
    /\ response = NoResponse
    /\ workers = <<>>

FavoritesNext ==
    \/ \E u \in UserIds, d \in FavoriteIds : add_favorite_driver(u, d)
    \/ close_session

SpecFavorites == FavoritesInit /\ [][FavoritesNext]_vars

(* ------------------------------ drivers ------------------------------- *)

\* roles a registration may carry
Roles == {"client", "driver"}

\* mutant of driver_by_user: the lookup finds nothing
driver_by_user_none(user_id) == None

\* filter(models.Driver.user_id == user_id).first(): the row's id, or None
driver_by_user(user_id) ==
    IF \E d \in DOMAIN drivers : drivers[d].user_id = user_id
    THEN CHOOSE d \in DOMAIN drivers :
            /\ drivers[d].user_id = user_id
            /\ \A e \in DOMAIN drivers : drivers[e].user_id = user_id => d <= e
    ELSE None

setup_driver(user_id) ==
    /\ Begin([op |-> "setup_driver", user_id |-> user_id])
    /\ IF user_id \notin DOMAIN users
       THEN HTTPException(404, {})
       ELSE IF users[user_id].role # "driver"
       THEN HTTPException(400, {})
       ELSE LET driver == driver_by_user(user_id)
            IN IF driver # None
               THEN /\ Return([driver_id |-> driver])
                    /\ UNCHANGED tables
               ELSE /\ drivers' = Append(drivers, Driver(user_id))
                    /\ Return([driver_id |-> Len(drivers) + 1])
                    /\ UNCHANGED <<users, trips, reviews, promo_codes,
                                   messages>>

DriversNext ==
    \/ \E e \in Emails, ph \in Phones, r \in Roles :
          register_user(e, ph, "pw1", r)
    \/ \E u \in UserIds : setup_driver(u)
    \/ close_session

SpecDrivers == EmptyInit /\ [][DriversNext]_vars

(* ------------------------------ promo codes --------------------------- *)

\* promo codes a client may send, as sequences of characters; the empty
\* one stands for a code that is empty or not given
CodeInputs == {<<>>, <<"g", "o">>, <<"G", "o">>, <<"G", "O">>, <<"u", "p">>}

\* discount percentages an administrator may send
Discounts == {10, 15}

\* original prices a client may send, in hundredths
OriginalPrices == {1, 333, 1000, 10000}

LowerCase == <<"g", "o", "p", "u">>

UpperCase == <<"G", "O", "P", "U">>

\* s.upper(), character by character
upper(s) ==
    [i \in DOMAIN s |->
        IF \E k \in DOMAIN LowerCase : LowerCase[k] = s[i]
        THEN UpperCase[CHOOSE k \in DOMAIN LowerCase : LowerCase[k] = s[i]]
        ELSE s[i]]

\* models.PromoCode(code=..., discount_percentage=..., is_active=True);
\* Column(String, unique=True) on code makes the commit of a second record
\* with a stored code an IntegrityError
PromoCode(code, discount_percentage) ==
    [code |-> code, discount_percentage |-> discount_percentage,
     is_active |-> TRUE]

\* mutant of existing_promo: the code is looked up as it was sent
existing_promo_as_sent(code) ==
    \E existing \in promo_codes : existing.code = code

\* filter(models.PromoCode.code == code.upper()).first()
existing_promo(code) ==
    \E existing \in promo_codes : existing.code = upper(code)

create_promo_code(code, discount) ==
    /\ Begin([op |-> "create_promo_code", code |-> code,
              discount |-> discount])
    /\ IF existing_promo(code)
       THEN HTTPException(400, {})
       ELSE IF \E promo \in promo_codes : promo.code = upper(code)
       THEN IntegrityError({})
       ELSE /\ promo_codes' = promo_codes \cup {PromoCode(upper(code), discount)}
            /\ Return(<<>>)
            /\ UNCHANGED <<users, drivers, trips, reviews, messages>>

delete_promo_code(code) ==
    /\ Begin([op |-> "delete_promo_code", code |-> code])
    /\ IF ~\E promo \in promo_codes : promo.code = upper(code)
       THEN HTTPException(404, {})
       ELSE /\ promo_codes' = promo_codes \
                    {CHOOSE promo \in promo_codes : promo.code = upper(code)}
            /\ Return(<<>>)
            /\ UNCHANGED <<users, drivers, trips, reviews, messages>>

\* a price as an exact fraction of hundredths
Fraction(num, den) == [num |-> num, den |-> den]

\* final_price *= 1.5
surge(final_price) == Fraction(3 * final_price.num, 2 * final_price.den)

\* mutant of discount: the percentage is taken off as an amount of
\* hundredths
discount_amount(final_price, discount_percentage) ==
    Fraction(final_price.num - discount_percentage * final_price.den,
             final_price.den)

\* final_price -= (promo.discount_percentage / 100) * final_price
discount(final_price, discount_percentage) ==
    Fraction(final_price.num * (100 - discount_percentage),
             final_price.den * 100)

\* round(final_price, 2): the nearest whole numbers of hundredths; a price
\* exactly halfway between two of them goes to either, as the binary
\* float standing for it lies on one side or the other
round2(final_price) ==
    LET num == final_price.num
        den == final_price.den
        floor == num \div den
    IN {r \in {floor, floor + 1} :
           /\ 2 * (r * den - num) <= den
           /\ 2 * (num - r * den) <= den}

\* mutant of active_promos: the code is looked up as it was sent
active_promos_as_sent(promo_code) ==
    {promo \in promo_codes : promo.code = promo_code /\ promo.is_active}

\* filter(PromoCode.code == promo_code.upper(),
\*        PromoCode.is_active.is_(True)).first()
active_promos(promo_code) ==
    {promo \in promo_codes : promo.code = upper(promo_code) /\ promo.is_active}

calculate_price(original_price, is_urgent, promo_code) ==
    /\ Begin([op |-> "calculate_price", original_price |-> original_price,
              is_urgent |-> is_urgent, promo_code |-> promo_code])
    /\ LET surged == IF is_urgent THEN surge(Fraction(original_price, 1))
                     ELSE Fraction(original_price, 1)
       IN \E final_price \in
              IF promo_code # <<>> /\ active_promos(promo_code) # {}
              THEN {discount(surged, promo.discount_percentage) :
                        promo \in active_promos(promo_code)}
              ELSE {surged} :
            \E rounded \in round2(final_price) :
                Return([final_price |-> rounded])
    /\ UNCHANGED tables

PromoNext ==
    \/ \E c \in CodeInputs, d \in Discounts : create_promo_code(c, d)
    \/ \E c \in CodeInputs : delete_promo_code(c)
    \/ \E p \in OriginalPrices, u \in BOOLEAN, c \in CodeInputs :
          calculate_price(p, u, c)
    \/ close_session

SpecPromo == EmptyInit /\ [][PromoNext]_vars

(* ------------------------------ messages ------------------------------ *)

\* most messages the table holds
MaxMessages == 2

\* message texts a client may send: empty, whitespace only, and with text
Contents ==
    {<<>>, <<" ">>, <<"\t", " ", "\n">>, <<"h", "i">>, <<" ", "o", "k", "\n">>}

\* models.Message(sender_id=..., receiver_id=..., content=...)
Message(sender_id, receiver_id, content) ==
    [sender_id |-> sender_id, receiver_id |-> receiver_id,
     content |-> content]

\* mutant of blank: only the empty text is refused
blank_empty(content) == content = <<>>

\* not content.strip()
blank(content) == strip_whitespace(content) = <<>>

send_message(sender_id, receiver_id, content) ==
    /\ Len(messages) < MaxMessages
    /\ Begin([op |-> "send_message", sender_id |-> sender_id,
              receiver_id |-> receiver_id, content |-> content])
    /\ IF blank(content)
       THEN HTTPException(400, {})
       ELSE /\ messages' = Append(messages,
                                  Message(sender_id, receiver_id, content))
            /\ Return([message_id |-> Len(messages) + 1])
            /\ UNCHANGED <<users, drivers, trips, reviews, promo_codes>>

get_my_messages(user_id) ==
    /\ Begin([op |-> "get_my_messages", user_id |-> user_id])
    /\ IF user_id \notin DOMAIN users
       THEN HTTPException(404, {})
       ELSE /\ Return([count |-> Cardinality({m \in DOMAIN messages :
                                    messages[m].receiver_id = user_id})])
            /\ UNCHANGED tables

MessagesNext ==
    \/ \E s, r \in UserIds, c \in Contents : send_message(s, r, c)
    \/ \E u \in UserIds : get_my_messages(u)
    \/ close_session

SpecMessages == FavoritesInit /\ [][MessagesNext]_vars

(* ------------------------------ sessions ------------------------------ *)

\* the framework resumes get_db once the response is made, so its finally
\* block runs after every request
FairSpecUsers == SpecUsers /\ WF_vars(close_session)

(* ------------------------------ shifts -------------------------------- *)

\* mutant of BusyStatuses: an accepted trip does not keep its driver busy
BusyStatuses_started == {"started"}

\* models.Trip.status.in_(["accepted", "started"])
BusyStatuses == {"accepted", "started"}

\* busy_ids = [d[0] for d in busy_drivers_ids if d[0] is not None]
busy_ids ==
    {trips[t].driver_id : t \in {i \in DOMAIN trips :
        trips[i].status \in BusyStatuses /\ trips[i].driver_id # None}}

get_available_drivers ==
    /\ Begin([op |-> "get_available_drivers"])
    /\ LET ids == [d \in DOMAIN drivers |-> d]
           available_drivers ==
               SelectSeq(ids, LAMBDA d : drivers[d].is_online = TRUE
                                         /\ d \notin busy_ids)
       IN IF \E i \in DOMAIN available_drivers :
                drivers[available_drivers[i]].user_id \notin DOMAIN users
          THEN AttributeError
          ELSE /\ Return([available |-> available_drivers])
               /\ UNCHANGED tables

\* mutant of shift: the toggle always puts the driver online
shift_on(is_online) == TRUE

\* not driver.is_online
shift(is_online) == ~is_online

update_status(driver_id) ==
    /\ Begin([op |-> "update_status", driver_id |-> driver_id])
    /\ IF driver_id \notin DOMAIN drivers
       THEN HTTPException(404, {})
       ELSE /\ drivers' = [drivers EXCEPT ![driver_id].is_online = shift(@)]
            /\ Return(<<>>)
            /\ UNCHANGED <<users, trips, reviews, promo_codes, messages>>

\* the tables after two drivers were set up and two trips requested
ShiftInit ==
    /\ users = <<User("client"), User("driver"), User("driver")>>
    /\ drivers = <<Driver(2), Driver(3)>>
    /\ trips = <<Trip(1, 25), Trip(1, 0)>>
    /\ reviews = {}
    /\ promo_codes = {}
    /\ messages = <<>>
    /\ session = Closed
    /\ request = NoRequest
    /\ response = NoResponse
    /\ workers = <<>>

ShiftNext ==
    \/ \E d \in DriverIds : update_status(d)
    \/ \E t \in 1 .. (Len(trips) + 1), d \in DriverIds : accept_trip(t, d)
    \/ \E t \in 1 .. (Len(trips) + 1) : cancel_trip(t)
    \/ \E t \in 1 .. (Len(trips) + 1) : complete_and_process_payment(t)
    \/ get_available_drivers
    \/ close_session

SpecShift == ShiftInit /\ [][ShiftNext]_vars

(* ------------------------------ claims -------------------------------- *)

\* this step serves a request of the given operation
Served(op) == ~session.open /\ session'.open /\ request'.op = op

\* the request of the given operation has just been answered with this code
Answered(op, code) == session.open /\ request.op = op /\ response.code = code

\* C1: Accept answers 404 when the driver or the trip does not exist and
\* changes nothing; on an existing trip with an existing driver it answers
\* 200 iff the trip's prior status is "searching" and 400 otherwise; after
\* a 200 the trip is "accepted" and its driver_id is the given driver.
C1_AcceptContract ==
    [][Served("accept_trip") =>
        LET t == request'.trip_id
            d == request'.driver_id
        IN /\ (d \notin DOMAIN drivers \/ t \notin DOMAIN trips) =>
                response'.code = 404 /\ trips' = trips
           /\ (d \in DOMAIN drivers /\ t \in DOMAIN trips) =>
                /\ response'.code = 200 <=> trips[t].status = "searching"
                /\ response'.code # 200 =>
                     response'.code = 400 /\ trips' = trips
                /\ response'.code = 200 =>
                     /\ trips'[t].status = "accepted"
                     /\ trips'[t].driver_id = d
    ]_vars

\* C1 witness: an Accept has succeeded and the trip carries its driver
C1_Witness ==
    /\ Answered("accept_trip", 200)
    /\ trips[request.trip_id].status = "accepted"
    /\ trips[request.trip_id].driver_id = request.driver_id

\* C2: Cancel on an existing trip answers 400 iff the prior status is
\* "completed" or "cancelled", and then the trip is unchanged; in every
\* other status it answers 200 and the status becomes "cancelled".
C2_CancelContract ==
    [][(Served("cancel_trip") /\ request'.trip_id \in DOMAIN trips) =>
        LET t == request'.trip_id
        IN /\ response'.code = 400 <=>
                trips[t].status \in {"completed", "cancelled"}
           /\ response'.code = 400 =>
                /\ trips'[t] = trips[t]
                /\ session'.dirty = {}
           /\ response'.code # 400 =>
                /\ response'.code = 200
                /\ trips'[t].status = "cancelled"
    ]_vars

\* C2 witness: a Cancel of an already cancelled trip has been refused
C2_Witness ==
    /\ Answered("cancel_trip", 400)
    /\ trips[request.trip_id].status = "cancelled"

\* C3: once a trip's status is "completed" or "cancelled", no operation
\* changes that trip's status again.
C3_TerminalStates ==
    [][\A t \in DOMAIN trips :
          trips[t].status \in {"completed", "cancelled"} =>
              trips'[t].status = trips[t].status
    ]_vars

\* C4: a successful Complete sets the trip to "completed" / "paid" and
\* adds to the assigned driver's total_earnings exactly final_price when
\* final_price > 0 and exactly 10 otherwise; no other driver's
\* total_earnings changes.
C4_CompletePays ==
    [][(Served("complete_and_process_payment") /\ response'.code = 200) =>
        LET t == request'.trip_id
            d == trips[t].driver_id
            p == trips[t].final_price
        IN /\ trips'[t].status = "completed"
           /\ trips'[t].payment_status = "paid"
           /\ d \in DOMAIN drivers
           /\ drivers'[d].total_earnings =
                drivers[d].total_earnings + (IF p > 0 THEN p ELSE 10)
           /\ \A e \in DOMAIN drivers \ {d} :
                drivers'[e].total_earnings = drivers[e].total_earnings
    ]_vars

\* C4 witness: a trip priced 0 has been completed and its driver holds
\* the flat 10
C4_Witness ==
    /\ Answered("complete_and_process_payment", 200)
    /\ trips[request.trip_id].final_price = 0
    /\ drivers[trips[request.trip_id].driver_id].total_earnings = 10

\* the amount credited for a trip priced p: p itself, or, with the flat
\* fallback, 10 when p <= 0
Credit(p, fallback) == IF fallback /\ p <= 0 THEN 10 ELSE p

\* the steps of Request -> Accept -> Complete -> Complete, the Complete of
\* an accepted trip crediting its driver Credit(final_price, fallback)
LifecycleSteps(fallback) ==
    /\ (Served("request_trip") /\ response'.code = 200) =>
          trips'[response'.trip_id].status = "searching"
    /\ (Served("accept_trip") /\ response'.code = 200) =>
          /\ trips[request'.trip_id].status = "searching"
          /\ trips'[request'.trip_id].status = "accepted"
    /\ (Served("complete_and_process_payment")
          /\ request'.trip_id \in DOMAIN trips) =>
          LET t == request'.trip_id
              d == trips[t].driver_id
          IN /\ (trips[t].status = "accepted" /\ d \in DOMAIN drivers) =>
                  /\ response'.code = 200
                  /\ trips'[t].status = "completed"
                  /\ drivers'[d].total_earnings =
                        drivers[d].total_earnings + Credit(trips[t].final_price, fallback)
             /\ trips[t].status = "completed" =>
                  /\ response'.code = 400
                  /\ drivers' = drivers
                  /\ trips' = trips
    /\ \A t \in DOMAIN trips :
          trips[t].status = "completed" => trips'[t] = trips[t]
    /\ drivers' # drivers =>
          /\ Served("complete_and_process_payment")
          /\ response'.code = 200
          /\ trips[request'.trip_id].status # "completed"

\* C5 as written: Request -> Accept -> Complete takes the trip through
\* searching -> accepted -> completed and raises the driver's
\* total_earnings by final_price; every later Complete answers 400 and
\* leaves total_earnings unchanged.
C5_Original == [][LifecycleSteps(FALSE)]_vars

\* C5 as amended: the same, the driver's total_earnings rising by
\* final_price when final_price > 0 and by the flat 10 otherwise; a
\* completed trip is never credited again.
C5_CreditOnce == [][LifecycleSteps(TRUE)]_vars

\* C5 witness: a second Complete of a completed, credited trip was refused
C5_Witness ==
    /\ Answered("complete_and_process_payment", 400)
    /\ trips[request.trip_id].status = "completed"
    /\ drivers[trips[request.trip_id].driver_id].total_earnings > 0

\* C6: a handler that answers with an error has written no entity field
\* before the failing check.
C6_ChecksBeforeWrites ==
    (session.open /\ response.code # 200) => session.dirty = {}

\* the rating r (in tenths) is sum / count rounded to one decimal
IsRoundedMean(r, sum, count) ==
    LET diff == r * count - 10 * sum
    IN 2 * (IF diff < 0 THEN -diff ELSE diff) <= count

\* C7: each driver's rating is the mean of the ratings of the reviews
\* stored for that driver, rounded to one decimal (drivers with at least
\* one stored review).
C7_RatingIsMean ==
    \A d \in DOMAIN drivers :
        LET mine == {r \in reviews : r.driver_id = d}
        IN mine # {} =>
             IsRoundedMean(drivers[d].rating, rating_sum(mine), Cardinality(mine))

\* C8: no step lowers a driver's total_earnings, whatever the trip's
\* final_price.
C8_EarningsMonotone ==
    [][\A d \in DOMAIN drivers :
          drivers'[d].total_earnings >= drivers[d].total_earnings
    ]_vars

\* C8 witness: a trip with a negative final_price has been completed
C8_Witness ==
    /\ Answered("complete_and_process_payment", 200)
    /\ trips[request.trip_id].final_price < 0

\* C9: LeaveReview on a missing trip answers 404; on an existing trip whose
\* status is not "completed" it answers 400, stores no review and leaves
\* every driver's rating unchanged.
C9_ReviewRejected ==
    [][Served("leave_review") =>
        LET t == request'.trip_id
        IN /\ t \notin DOMAIN trips =>
                response'.code = 404 /\ reviews' = reviews /\ drivers' = drivers
           /\ (t \in DOMAIN trips /\ trips[t].status # "completed") =>
                /\ response'.code = 400
                /\ reviews' = reviews
                /\ \A d \in DOMAIN drivers : drivers'[d].rating = drivers[d].rating
    ]_vars

\* C9 witness: a review of a trip that is not completed has been refused
C9_Witness ==
    /\ Answered("leave_review", 400)
    /\ trips[request.trip_id].status # "completed"

\* C10: a successful LeaveReview stores one new review for the trip's
\* driver and sets that driver's rating to the mean of the ratings of all
\* the driver's stored reviews, the new one included, rounded to one
\* decimal; were that mean undefined the rating would stay as it was.
C10_RatingRecomputed ==
    [][(Served("leave_review") /\ response'.code = 200) =>
        LET d == trips[request'.trip_id].driver_id
            mine == {r \in reviews' : r.driver_id = d}
        IN /\ \E r \in reviews' \ reviews :
                /\ reviews' = reviews \cup {r}
                /\ r.id = response'.review_id
                /\ r.trip_id = request'.trip_id
                /\ r.driver_id = d
                /\ r.rating = request'.rating
           /\ IF mine = {}
              THEN drivers'[d].rating = drivers[d].rating
              ELSE IsRoundedMean(drivers'[d].rating, rating_sum(mine),
                                 Cardinality(mine))
    ]_vars

\* C10 witness: the third review of a driver, ratings 5, 5 and 4, has set
\* the rating to 4.7
C10_Witness ==
    /\ Answered("leave_review", 200)
    /\ LET d == trips[request.trip_id].driver_id
       IN /\ Cardinality({r \in reviews : r.driver_id = d}) = 3
          /\ drivers[d].rating = 47

\* C11: two concurrent Accept calls on one searching trip can both pass the
\* status check before either commits; each then commits and answers 200,
\* and every commit leaves the trip "accepted" with the committing call's
\* driver_id, so the trip keeps the driver of the call that committed last.
C11_LastWriterWins ==
    [][\A w \in DOMAIN workers :
          (workers[w].pc = "commit" /\ workers'[w].pc = "done") =>
              /\ workers[w].status = "searching"
              /\ workers'[w].code = 200
              /\ trips'[workers[w].trip_id].status = "accepted"
              /\ trips'[workers[w].trip_id].driver_id = workers[w].driver_id
    ]_vars

\* C11 witness: two calls for different drivers have both answered 200 for
\* the same trip
C11_Witness ==
    \E v, w \in DOMAIN workers :
        /\ workers[v].pc = "done" /\ workers[v].code = 200
        /\ workers[w].pc = "done" /\ workers[w].code = 200
        /\ workers[v].trip_id = workers[w].trip_id
        /\ workers[v].driver_id # workers[w].driver_id
        /\ trips[workers[w].trip_id].status = "accepted"
        /\ trips[workers[w].trip_id].driver_id = workers[w].driver_id

\* C12: Register answers 400 and stores no user when a stored user has the
\* same email or the same phone; with both unused it answers 200 and
\* stores exactly one new user, carrying that email and phone.
C12_RegisterUnique ==
    [][Served("register_user") =>
        LET taken == \E i \in DOMAIN users :
                        \/ users[i].email = request'.email
                        \/ users[i].phone = request'.phone
        IN /\ taken => response'.code = 400 /\ users' = users
           /\ ~taken =>
                /\ response'.code = 200
                /\ Len(users') = Len(users) + 1
                /\ SubSeq(users', 1, Len(users)) = users
                /\ users'[Len(users')].email = request'.email
                /\ users'[Len(users')].phone = request'.phone
    ]_vars

\* C12 witness: a registration with a new email and a stored phone has
\* been refused
C12_Witness ==
    /\ Answered("register_user", 400)
    /\ \A i \in DOMAIN users : users[i].email # request.email
    /\ \E i \in DOMAIN users : users[i].phone = request.phone

\* C13: no two users share an email and no two users share a phone.
C13_EmailPhoneUnique ==
    \A i, j \in DOMAIN users :
        i # j => users[i].email # users[j].email /\ users[i].phone # users[j].phone

\* C13 witness: a phone change to another user's phone has been answered
\* with an error, two users being stored
C13_Witness ==
    /\ session.open
    /\ request.op = "update_user_security"
    /\ response.code = 500
    /\ Len(users) >= 2
    /\ \E j \in DOMAIN users \ {request.user_id} : users[j].phone = request.phone

\* C17: Login answers 401 when no user has the email or the password
\* differs, 403 when the credentials match and the account is blocked, and
\* 200 otherwise; a blocked user with a wrong password gets 401.
C17_LoginCodes ==
    [][Served("login") =>
        LET match == {i \in DOMAIN users : users[i].email = request'.email}
            good == {i \in match : users[i].password = request'.password}
        IN /\ good = {} => response'.code = 401
           /\ (good # {} /\ \E i \in good : ~users[i].is_active) =>
                response'.code = 403
           /\ (good # {} /\ \A i \in good : users[i].is_active) =>
                response'.code = 200 /\ response'.id \in good
           /\ users' = users
    ]_vars

\* C17 witness: a blocked user has sent a wrong password and got 401
C17_Witness ==
    /\ Answered("login", 401)
    /\ \E i \in DOMAIN users :
          /\ users[i].email = request.email
          /\ users[i].password # request.password
          /\ ~users[i].is_active

\* C14: add_favorite_driver with an id already among the user's favorites
\* changes nothing and answers "Driver is already in your favorites list";
\* with a new id the favorites become the old ones followed by that id.
\* No user's favorites ever hold an id twice, and since ids are only ever
\* appended they stay in the order of their first insertion.
C14_FavoritesAppendOnce ==
    /\ [](\A u \in DOMAIN users :
            LET ids == favorite_ids(users[u].favorites)
            IN \A i, j \in DOMAIN ids : i # j => ids[i] # ids[j])
    /\ [][(Served("add_favorite_driver") /\ request'.user_id \in DOMAIN users) =>
            LET u == request'.user_id
                old == favorite_ids(users[u].favorites)
                new == favorite_ids(users'[u].favorites)
            IN /\ response'.code = 200
               /\ \A v \in DOMAIN users \ {u} : users'[v] = users[v]
               /\ IF \E i \in DOMAIN old : old[i] = request'.driver_id
                  THEN /\ users' = users
                       /\ response'.message =
                              "Driver is already in your favorites list"
                  ELSE /\ new = Append(old, request'.driver_id)
                       /\ response'.message = "Driver added to favorites"
       ]_vars

\* C14 witness: a user holding 12, 1 and 2 in this order has asked for 1
\* again and been told it is already there
C14_Witness ==
    /\ Answered("add_favorite_driver", 200)
    /\ request.driver_id = 1
    /\ response.message = "Driver is already in your favorites list"
    /\ favorite_ids(users[request.user_id].favorites) = <<12, 1, 2>>

\* C15: setup_driver for a user who already has a Driver record answers
\* with that record's id and creates nothing, so no user ever has two
\* Driver records; for an unknown user it answers 404 and for a user whose
\* role is not "driver" 400, creating nothing in both cases.
C15_SetupDriverIdempotent ==
    /\ [](\A d, e \in DOMAIN drivers :
            drivers[d].user_id = drivers[e].user_id => d = e)
    /\ [][Served("setup_driver") =>
            LET u == request'.user_id
                own == {d \in DOMAIN drivers : drivers[d].user_id = u}
            IN /\ u \notin DOMAIN users =>
                    response'.code = 404 /\ drivers' = drivers
               /\ (u \in DOMAIN users /\ users[u].role # "driver") =>
                    response'.code = 400 /\ drivers' = drivers
               /\ (u \in DOMAIN users /\ users[u].role = "driver" /\ own # {}) =>
                    /\ response'.code = 200
                    /\ response'.driver_id \in own
                    /\ drivers' = drivers
               /\ users' = users
       ]_vars

\* C15 witness: setup_driver has been called again for a user who had a
\* Driver record and answered with that record's id
C15_Witness ==
    /\ Answered("setup_driver", 200)
    /\ Len(drivers) = 2
    /\ response.driver_id = 1
    /\ drivers[1].user_id = request.user_id

\* C16: CalculatePrice answers the original price, times 1.5 when urgent,
\* then less discount_percentage percent when the given promo code
\* resolves to an active PromoCode, rounded to 2 decimals; an unknown
\* promo code leaves the price as it was and is no error; nothing stored
\* changes.
C16_PriceFormula ==
    [][Served("calculate_price") =>
        LET p == request'.original_price
            found == {promo \in promo_codes :
                         /\ request'.promo_code # <<>>
                         /\ promo.code = upper(request'.promo_code)
                         /\ promo.is_active}
            percents == IF found = {} THEN {0}
                        ELSE {promo.discount_percentage : promo \in found}
            r == response'.final_price
        IN /\ response'.code = 200
           /\ \E d \in percents :
                LET exact == p * (IF request'.is_urgent THEN 3 ELSE 2) * (100 - d)
                IN /\ 200 * r - exact <= 100
                   /\ exact - 200 * r <= 100
           /\ UNCHANGED tables
    ]_vars

\* C16 witness: an urgent 100.00 with the code "go" resolving to the 10
\* percent promo "GO" has been priced 135.00
C16_Witness ==
    /\ Answered("calculate_price", 200)
    /\ request.original_price = 10000
    /\ request.is_urgent
    /\ request.promo_code = <<"g", "o">>
    /\ PromoCode(<<"G", "O">>, 10) \in promo_codes
    /\ response.final_price = 13500

\* C18: every stored promo code is uppercased and no two PromoCode records
\* have the same code; create_promo_code answers 400 and creates nothing
\* when a record with the uppercased input exists, and otherwise stores
\* one record with the uppercased input.
C18_PromoCodesUnique ==
    /\ [](\A a, b \in promo_codes :
            /\ a.code = upper(a.code)
            /\ a.code = b.code => a = b)
    /\ [][Served("create_promo_code") =>
            LET code == upper(request'.code)
            IN IF \E promo \in promo_codes : promo.code = code
               THEN response'.code = 400 /\ promo_codes' = promo_codes
               ELSE /\ response'.code = 200
                    /\ promo_codes' = promo_codes \cup
                          {PromoCode(code, request'.discount)}
       ]_vars

\* C18 witness: a code differing from a stored one only in letter case has
\* been refused
C18_Witness ==
    /\ Answered("create_promo_code", 400)
    /\ request.code = <<"G", "o">>
    /\ \E promo \in promo_codes : promo.code = <<"G", "O">>
    /\ \A promo \in promo_codes : promo.code # request.code

\* C19: send_message with a text that is empty or all whitespace answers
\* 400 and stores nothing, and with any other text stores one Message;
\* every stored Message has a character that is not whitespace; no step
\* changes or removes a stored Message.
C19_MessagesKept ==
    /\ [](\A m \in DOMAIN messages :
            \E i \in DOMAIN messages[m].content :
                messages[m].content[i] \notin Whitespace)
    /\ [][/\ Len(messages') >= Len(messages)
          /\ SubSeq(messages', 1, Len(messages)) = messages
          /\ Served("send_message") =>
                LET content == request'.content
                IN IF \A i \in DOMAIN content : content[i] \in Whitespace
                   THEN response'.code = 400 /\ messages' = messages
                   ELSE /\ response'.code = 200
                        /\ messages' = Append(messages,
                              Message(request'.sender_id,
                                      request'.receiver_id, content))
       ]_vars

\* C19 witness: with a message stored, a text of whitespace only has been
\* refused
C19_Witness ==
    /\ Answered("send_message", 400)
    /\ request.content = <<"\t", " ", "\n">>
    /\ Len(messages) = 1

\* C20: a session is open exactly while a request is being served, one
\* session holding that request, and every open session is eventually
\* released, after a return and after an error alike.
C20_SessionReleased ==
    /\ [](session.open <=> request.op # "none")
    /\ [](~session.open => response = NoResponse)
    /\ (session.open ~> ~session.open)

\* C20 witness: a request has ended in an error with a write pending in
\* its session, which is still to be released
C20_Witness ==
    /\ session.open
    /\ response.code = 500
    /\ session.dirty # {}

\* C21: get_available_drivers lists exactly the drivers that are online
\* and are the driver of no trip whose status is "accepted" or "started";
\* a driver with an accepted trip is not listed, and an online driver
\* whose trips are all completed or cancelled is listed.
C21_AvailableDrivers ==
    [][Served("get_available_drivers") =>
        /\ response'.code = 200
        /\ {response'.available[i] : i \in DOMAIN response'.available} =
              {d \in DOMAIN drivers :
                  /\ drivers[d].is_online
                  /\ ~\E t \in DOMAIN trips :
                        /\ trips[t].driver_id = d
                        /\ trips[t].status \in {"accepted", "started"}}
        /\ UNCHANGED tables
    ]_vars

\* C21 witness: the search has listed an online driver whose trip is
\* completed and left out an online driver whose trip is accepted
C21_Witness ==
    /\ Answered("get_available_drivers", 200)
    /\ response.available = <<1>>
    /\ trips[1].driver_id = 1 /\ trips[1].status = "completed"
    /\ trips[2].driver_id = 2 /\ trips[2].status = "accepted"
    /\ drivers[2].is_online

\* C24: the shift toggle on a known driver negates that driver's is_online
\* and changes nothing else, so a second toggle restores the row; on an
\* unknown driver it answers 404 and changes nothing.
C24_ShiftFlipsOnly ==
    [][Served("update_status") =>
        LET d == request'.driver_id
        IN IF d \in DOMAIN drivers
           THEN /\ response'.code = 200
                /\ drivers' = [drivers EXCEPT ![d].is_online = ~drivers[d].is_online]
                /\ drivers = [drivers' EXCEPT ![d].is_online = ~drivers'[d].is_online]
                /\ UNCHANGED <<users, trips, reviews, promo_codes, messages>>
           ELSE response'.code = 404 /\ UNCHANGED tables
    ]_vars

\* C24 witness: a driver who was online with earnings has toggled and is
\* offline
C24_Witness ==
    /\ Answered("update_status", 200)
    /\ ~drivers[request.driver_id].is_online
    /\ drivers[request.driver_id].total_earnings > 0

C23_ReviewsUnlimited ==
    [][(/\ Served("leave_review")
        /\ request'.trip_id \in DOMAIN trips
        /\ trips[request'.trip_id].status = "completed") =>
        LET d == trips[request'.trip_id].driver_id
            mine == {r \in reviews' : r.driver_id = d}
        IN /\ response'.code = 200
           /\ Cardinality(reviews') = Cardinality(reviews) + 1
           /\ Cardinality({r \in reviews' : r.trip_id = request'.trip_id}) =
                 Cardinality({r \in reviews : r.trip_id = request'.trip_id}) + 1
           /\ IsRoundedMean(drivers'[d].rating, rating_sum(mine),
                            Cardinality(mine))
    ]_vars

\* C25: a request answered with an error leaves the stored tables as they
\* were, when it is answered and when its session is released; a Complete
\* refused for want of a driver leaves the trip's status and
\* payment_status as they were, its pending writes being discarded.
C25_ErrorKeepsStore ==
    /\ [][(~session.open /\ session'.open /\ response'.code # 200) =>
            UNCHANGED tables]_vars
    /\ [][(session.open /\ ~session'.open) => UNCHANGED tables]_vars

\* C25 witness: a Complete of a trip without a driver has been refused
\* with its two writes pending, the stored trip still searching and unpaid
C25_Witness ==
    /\ Answered("complete_and_process_payment", 400)
    /\ session.dirty = complete_writes(request.trip_id)
    /\ trips[request.trip_id].status = "searching"
    /\ trips[request.trip_id].payment_status = "pending"

RECURSIVE credited(_, _)
\* the amounts credited for the completed trips 1 .. n of driver d
credited(d, n) ==
    IF n = 0 THEN 0
    ELSE credited(d, n - 1) +
         (IF trips[n].status = "completed" /\ trips[n].driver_id = d
          THEN (IF trips[n].final_price > 0 THEN trips[n].final_price ELSE 10)
          ELSE 0)

\* C26: each driver's total_earnings is the sum, over the completed trips
\* of that driver, of final_price when it is positive and 10 otherwise.
C26_EarningsAreCredits ==
    \A d \in DOMAIN drivers :
        drivers[d].total_earnings = DefaultEarnings + credited(d, Len(trips))

\* C26 witness: a driver has completed a trip priced 25 and a trip priced
\* 0 or less, and holds 35
C26_Witness ==
    \E d \in DOMAIN drivers :
        /\ drivers[d].total_earnings = 35
        /\ \A t \in DOMAIN trips :
              trips[t].status = "completed" /\ trips[t].driver_id = d
        /\ Len(trips) = 2

\* C27: a trip's payment_status is "paid" when its status is "completed"
\* and "pending" otherwise.
C27_PaidIffCompleted ==
    \A t \in DOMAIN trips :
        trips[t].payment_status =
            IF trips[t].status = "completed" THEN "paid" ELSE "pending"

\* C27 witness: a paid completed trip next to a cancelled pending one
C27_Witness ==
    \E t, u \in DOMAIN trips :
        /\ trips[t].status = "completed" /\ trips[t].payment_status = "paid"
        /\ trips[u].status = "cancelled" /\ trips[u].payment_status = "pending"
        /\ trips[u].driver_id # None

\* C28: a searching trip has no driver, an accepted or completed trip has
\* the id of a stored Driver, and no step changes or clears a driver_id
\* once it is set.
C28_DriverAssigned ==
    /\ [](\A t \in DOMAIN trips :
            /\ trips[t].status = "searching" => trips[t].driver_id = None
            /\ trips[t].status \in {"accepted", "completed"} =>
                  trips[t].driver_id \in DOMAIN drivers)
    /\ [][\A t \in DOMAIN trips :
            trips[t].driver_id # None =>
                trips'[t].driver_id = trips[t].driver_id]_vars

\* C28 witness: an accept naming the other driver has been refused on a
\* trip that has its driver
C28_Witness ==
    /\ Answered("accept_trip", 400)
    /\ request.driver_id \in DOMAIN drivers
    /\ trips[request.trip_id].driver_id \in DOMAIN drivers \ {request.driver_id}

\* C29: every trip's status is one of "searching", "accepted", "completed"
\* and "cancelled"; none is ever "started".
C29_NeverStarted ==
    \A t \in DOMAIN trips :
        trips[t].status \in {"searching", "accepted", "completed", "cancelled"}

\* C29 witness: an accepted trip keeps its driver busy next to a searching
\* trip
C29_Witness ==
    \E t, u \in DOMAIN trips :
        /\ trips[t].status = "accepted" /\ trips[t].driver_id \in busy_ids
        /\ trips[u].status = "searching"

\* C30: no step sets a blocked user's is_active back to TRUE, and every
\* Login with the email and the current password of a blocked user answers
\* 403.
C30_BlockedForGood ==
    /\ [][\A u \in DOMAIN users :
            ~users[u].is_active => ~users'[u].is_active]_vars
    /\ [][(/\ Served("login")
           /\ \E u \in DOMAIN users :
                 /\ ~users[u].is_active
                 /\ users[u].email = request'.email
                 /\ users[u].password = request'.password) =>
            response'.code = 403]_vars

\* C30 witness: a blocked user has been refused with 403 while another
\* user is active
C30_Witness ==
    /\ Answered("login", 403)
    /\ \E u, v \in DOMAIN users :
          /\ users[u].email = request.email
          /\ ~users[u].is_active
          /\ users[v].is_active
====
